---- MODULE Spec2Model ----
(***************************************************************************)
(* ClaudeCodeManager (backend/claude_code_manager.py): one manager object  *)
(* that spawns a child process per run_task call, streams its standard     *)
(* output, and offers stop (SIGTERM, timeout, SIGKILL) and kill (SIGKILL). *)
(*                                                                         *)
(* The coroutines run on one asyncio event loop: a coroutine runs without  *)
(* interruption from one await (or yield) to the next, so every action     *)
(* below is the code between two suspension points.  The child processes   *)
(* and the outcomes of system calls are the environment.                   *)
(***************************************************************************)
EXTENDS Integers, Sequences, FiniteSets, TLC

\* ---------------------------------------------------------------- bounds
MaxLines == 1       \* standard-output lines a child writes
MaxStreamLines == 2 \* the same, when the manager serves one run_task call only
MaxFrames == 1      \* text frames a WebSocket client sends

Runners  == {"r1", "r2"}     \* callers of run_task; each iterates it once
First    == "r1"             \* the caller whose create_subprocess_exec returns first
Stoppers == {"s1", "s2"}     \* callers of stop and kill, one call after another each
Sole     == "s1"             \* the one caller of stop and kill beside overlapping runs

Procs == 1..Cardinality(Runners)   \* one child per run_task call at most
None  == 0                   \* Python None, as a handle
NoCode == 99                 \* no exit status (returncode is None)
NoText == "-"                \* no captured text

SIGTERM == "SIGTERM"
SIGKILL == "SIGKILL"

\* claude_code_manager.py:107: line.decode('utf-8', errors='replace') of the
\* n-th line a child writes; decoding never raises and keeps lines apart.
Decode(n) == <<"line", n>>

\* What child p writes to its standard error: a text of its own.
ErrText(p) == <<"stderr of child", p>>

VARIABLES
    m_process,      \* self._process: None or the tracked child
    m_is_running,   \* self._is_running
    spawned,        \* number of children created so far (children are 1..spawned)
    status,         \* child -> exit status, NoCode while it is alive
    reaped,         \* child -> the event loop has collected its exit status
    sig,            \* child -> signals delivered to it
    written,        \* child -> lines written to standard output
    readpos,        \* child -> lines taken from its standard-output pipe
    run,            \* runner -> frame of its run_task generator
    td,             \* stopper -> frame of its stop/kill coroutine
    lastReturned,   \* the last step of a manager operation was a return of stop or kill
    rp,             \* caller -> frame of its opus_computer._run_process call
    active,         \* websocket_handler.manager.active_connections
    ep,             \* connection -> frame of its websocket_endpoint handler
    bc,             \* frame of the broadcast call
    client          \* connection -> the client's end is "open" or "closed"

vars == <<m_process, m_is_running, spawned, status, reaped, sig, written,
          readpos, run, td, lastReturned, rp, active, ep, bc, client>>

mgr  == <<m_process, m_is_running>>
env  == <<spawned, status, reaped, sig, written, readpos>>

\* The ClaudeCodeManager, its callers and the output of its children; and the
\* state of the rest of the backend.
claude  == <<m_process, m_is_running, run, td, lastReturned, written, readpos>>
web     == <<active, ep, bc, client>>
outside == <<rp, active, ep, bc, client>>

\* ------------------------------------------------------------ exceptions
\* An exception in flight: its class and what its message carries.
Exc(type, code, text) == [type |-> type, code |-> code, text |-> text]
NoExc == Exc("none", NoCode, NoText)

\* Classes derived from Exception; GeneratorExit derives from BaseException only.
ExceptionClasses ==
    {"FileNotFoundError", "PermissionError", "ProcessLookupError", "AttributeError",
     "ValueError", "TimeoutError", "ProcessStartError", "ProcessCommunicationError"}

IsException(e) == e.type \in ExceptionClasses

\* ------------------------------------------------------------- processes
\* A child is alive until it exits; the loop learns of the exit later, and only
\* then is Process.returncode set and are the coroutines awaiting wait() resumed.
Alive(p)  == p \in 1..spawned /\ status[p] = NoCode
Gone(p)   == p \in 1..spawned /\ status[p] # NoCode
Exited(p) == p \in 1..spawned /\ reaped[p]

\* Process.returncode
returncode(p) == IF reaped[p] THEN status[p] ELSE NoCode

\* claude_code_manager.py:63-66
is_running == m_is_running /\ m_process # None

\* Exit statuses a child may end with: killed by a delivered signal, or by itself.
ExitCodes(p) ==
    IF SIGKILL \in sig[p] THEN {-9}
    ELSE IF SIGTERM \in sig[p] THEN {-15, 0}
    ELSE {0, 2}

\* ---------------------------------------------------------------- run_task
\* pc: where the generator is suspended; proc: the child it spawned; wait: the
\* child whose wait() or stderr it awaits; out: the lines yielded; cause: the
\* exception raised inside the try block; raised: what the call raised to its
\* caller; seen: the manager as the call left it.
NoRun == [pc |-> "idle", proc |-> None, wait |-> None, return_code |-> NoCode,
          out |-> <<>>, cause |-> "none", raised |-> NoExc,
          seen |-> [process |-> None, is_running |-> FALSE],
          result |-> NoText, escaped |-> NoExc]

\* Variants of RunTaskExcept: the clause for Exception placed first, and absent.
RunTaskExceptWrapsAll(e) ==
    IF IsException(e)
    THEN Exc("ProcessCommunicationError", e.code, e.text)
    ELSE e

RunTaskExceptNoWrap(e) ==
    IF e.type = "FileNotFoundError"
    THEN Exc("ProcessStartError", NoCode, NoText)
    ELSE e

\* claude_code_manager.py:130-140: what the except clauses of run_task turn an
\* exception raised in the try block into.
RunTaskExcept(e) ==
    IF e.type = "FileNotFoundError"
    THEN Exc("ProcessStartError", NoCode, NoText)
    ELSE IF IsException(e)
    THEN Exc("ProcessCommunicationError", e.code, e.text)   \* f"Failed to run task: {e}"
    ELSE e

\* Variant of RunTaskFinally: the running flag is not reset.
RunTaskFinallyKeepsFlag ==
    /\ m_process' = None
    /\ UNCHANGED m_is_running

\* Variant of RunTaskFinally: the handle is not cleared.
RunTaskFinallyKeepsHandle ==
    /\ m_is_running' = FALSE
    /\ UNCHANGED m_process

\* claude_code_manager.py:142-144
RunTaskFinally ==
    /\ m_is_running' = FALSE
    /\ m_process' = None

\* Variant of RunTaskExit: the cleanup is written at the end of the body and in
\* the except clauses, so it runs on normal completion and on an Exception only.
RunTaskExitWithoutFinally(r, e, pc) ==
    /\ IF e = NoExc \/ IsException(e) THEN RunTaskFinally ELSE UNCHANGED mgr
    /\ run' = [run EXCEPT ![r].pc = pc, ![r].wait = None, ![r].return_code = NoCode,
                           ![r].cause = e.type, ![r].raised = RunTaskExcept(e),
                           ![r].seen = [process |-> m_process',
                                        is_running |-> m_is_running' /\ m_process' # None]]

\* run_task leaves its try block with exception e (NoExc: normal completion).
RunTaskExit(r, e, pc) ==
    /\ RunTaskFinally
    /\ run' = [run EXCEPT ![r].pc = pc, ![r].wait = None, ![r].return_code = NoCode,
                           ![r].cause = e.type, ![r].raised = RunTaskExcept(e),
                           ![r].seen = [process |-> m_process',
                                        is_running |-> m_is_running' /\ m_process' # None]]

\* The caller starts iterating run_task(prompt): the generator runs up to the
\* await of create_subprocess_exec (line 94).
RunCall(r) ==
    /\ run[r].pc = "idle"
    /\ r = First \/ run[First].pc \notin {"idle", "spawn"}
    /\ run' = [run EXCEPT ![r] = [NoRun EXCEPT !.pc = "spawn"]]
    /\ lastReturned' = FALSE
    /\ UNCHANGED <<mgr, env, td>>
    /\ UNCHANGED outside

SpawnErrors == {"FileNotFoundError", "PermissionError"}

\* claude_code_manager.py:94-105: create_subprocess_exec returns a child.
RunSpawnOk(r) ==
    /\ run[r].pc = "spawn"
    /\ spawned' = spawned + 1
    /\ m_process' = spawned + 1
    /\ m_is_running' = TRUE
    /\ run' = [run EXCEPT ![r].pc = "stream", ![r].proc = spawned + 1]
    /\ lastReturned' = FALSE
    /\ UNCHANGED <<status, reaped, sig, written, readpos, td>>
    /\ UNCHANGED outside

\* claude_code_manager.py:94-100, 130-144: create_subprocess_exec raises.
RunSpawnFail(r) ==
    /\ run[r].pc = "spawn"
    /\ \E t \in SpawnErrors : RunTaskExit(r, Exc(t, NoCode, NoText), "done")
    /\ lastReturned' = FALSE
    /\ UNCHANGED <<env, td>>
    /\ UNCHANGED outside

\* A streaming loop that consumes the first line of the output without
\* yielding it.
RunYieldDropsFirst(r) ==
    LET p == run[r].proc IN
    /\ run[r].pc = "stream"
    /\ readpos[p] < written[p]
    /\ readpos' = [readpos EXCEPT ![p] = @ + 1]
    /\ run' = IF readpos[p] = 0 THEN run
              ELSE [run EXCEPT ![r].pc = "yield",
                               ![r].out = Append(@, Decode(readpos[p] + 1))]
    /\ lastReturned' = FALSE
    /\ UNCHANGED <<mgr, spawned, status, reaped, sig, written, td>>
    /\ UNCHANGED outside

\* claude_code_manager.py:106-108: the next line of the child's standard output
\* is read, decoded and yielded; the generator is suspended at the yield.
RunYield(r) ==
    LET p == run[r].proc IN
    /\ run[r].pc = "stream"
    /\ readpos[p] < written[p]
    /\ readpos' = [readpos EXCEPT ![p] = @ + 1]
    /\ run' = [run EXCEPT ![r].pc = "yield", ![r].out = Append(@, Decode(readpos[p] + 1))]
    /\ lastReturned' = FALSE
    /\ UNCHANGED <<mgr, spawned, status, reaped, sig, written, td>>
    /\ UNCHANGED outside

\* The caller asks for the next line: the generator resumes after the yield and
\* suspends in the read of the next line.
RunNext(r) ==
    /\ run[r].pc = "yield"
    /\ run' = [run EXCEPT ![r].pc = "stream"]
    /\ lastReturned' = FALSE
    /\ UNCHANGED <<mgr, env, td>>
    /\ UNCHANGED outside

\* The caller stops consuming at a yield (it leaves its loop, or the iterating
\* code raised) without closing the generator.
RunAbandon(r) ==
    /\ run[r].pc = "yield"
    /\ run' = [run EXCEPT ![r].pc = "abandoned"]
    /\ lastReturned' = FALSE
    /\ UNCHANGED <<mgr, env, td>>
    /\ UNCHANGED outside

\* claude_code_manager.py:108, 142-144: the abandoned generator is closed at its
\* yield, by the caller (aclose) or when asyncio finalizes it: GeneratorExit
\* passes the except clauses and the finally block runs.
RunClose(r) ==
    /\ run[r].pc = "abandoned"
    /\ RunTaskExit(r, Exc("GeneratorExit", NoCode, NoText), "closed")
    /\ lastReturned' = FALSE
    /\ UNCHANGED <<env, td>>
    /\ UNCHANGED outside

\* claude_code_manager.py:106: reading a line raises (StreamReader raises
\* ValueError for a line longer than its limit).
RunStreamError(r) ==
    LET p == run[r].proc IN
    /\ run[r].pc = "stream"
    /\ readpos[p] < written[p]
    /\ RunTaskExit(r, Exc("ValueError", NoCode, NoText), "done")
    /\ lastReturned' = FALSE
    /\ UNCHANGED <<env, td>>
    /\ UNCHANGED outside

\* claude_code_manager.py:106-111: end of the child's standard output; the
\* generator evaluates self._process.wait() on the handle held NOW and awaits it.
RunEndOfStream(r) ==
    LET p == run[r].proc IN
    /\ run[r].pc = "stream"
    /\ readpos[p] = written[p]
    /\ Gone(p)
    /\ IF m_process = None
       THEN RunTaskExit(r, Exc("AttributeError", NoCode, NoText), "done")
       ELSE /\ run' = [run EXCEPT ![r].pc = "wait", ![r].wait = m_process]
            /\ UNCHANGED mgr
    /\ lastReturned' = FALSE
    /\ UNCHANGED <<env, td>>
    /\ UNCHANGED outside

\* claude_code_manager.py:111-128: wait() returns the exit status.  Zero ends the
\* sequence; otherwise self._process.stderr is read from the handle held NOW.
RunWaitDone(r) ==
    LET w == run[r].wait
        return_code == returncode(w) IN
    /\ run[r].pc = "wait"
    /\ Exited(w)
    /\ IF return_code = 0
       THEN RunTaskExit(r, NoExc, "done")
       ELSE IF m_process = None
       THEN RunTaskExit(r, Exc("AttributeError", NoCode, NoText), "done")
       ELSE /\ run' = [run EXCEPT ![r].pc = "stderr", ![r].wait = m_process,
                                  ![r].return_code = return_code]
            /\ UNCHANGED mgr
    /\ lastReturned' = FALSE
    /\ UNCHANGED <<env, td>>
    /\ UNCHANGED outside

\* claude_code_manager.py:117-126: stderr has been read to its end; the error
\* naming the exit status and the text is raised inside the try block.
RunStderrDone(r) ==
    LET w == run[r].wait
        stderr_output == ErrText(w) IN
    /\ run[r].pc = "stderr"
    /\ Gone(w)
    /\ RunTaskExit(r, Exc("ProcessCommunicationError", run[r].return_code,
                          stderr_output), "done")
    /\ lastReturned' = FALSE
    /\ UNCHANGED <<env, td>>
    /\ UNCHANGED outside

\* ------------------------------------------------------------ stop and kill
\* What a caller sees of the manager: the handle and the is_running property.
Seen == [process |-> m_process, is_running |-> is_running]

\* pc: where the coroutine is suspended; wait: the child whose wait() it awaits;
\* sent: the signal calls this call made, in order; path: the way the call ended;
\* raised: what it raised to its caller; seen: the manager as the call left it;
\* inrow: the call began right after a stop or kill returned.
NoCall == [pc |-> "idle", kind |-> "none", wait |-> None, sent |-> <<>>,
           path |-> "none", raised |-> NoExc, inrow |-> FALSE,
           seen |-> [process |-> None, is_running |-> FALSE]]

\* Outcomes of delivering a signal to child p (Process.send_signal, Process.kill):
\* a live child receives it; for a child that is gone the call either raises
\* ProcessLookupError or does nothing.
SignalOutcomes(p) ==
    IF Alive(p) THEN {"ok"} ELSE {"ProcessLookupError", "ignored"}

\* Variant of Deliver: the signal is never sent.
DeliverNothing(p, s, o) == sig

\* The signals child p has received after signal s is sent with outcome o.
Deliver(p, s, o) ==
    [sig EXCEPT ![p] = IF o = "ok" THEN @ \cup {s} ELSE @]

\* The call of stopper t ends: frame f, the way it ended, what it raises.
Return(t, f, path, e) ==
    td' = [td EXCEPT ![t] = [f EXCEPT !.pc = "done", !.wait = None, !.path = path,
                                      !.raised = e, !.seen = Seen']]

\* Variant of StopExcept: only the "already gone" race is caught.
StopExceptLookupOnly(e) ==
    IF e.type = "ProcessLookupError" THEN NoExc ELSE e

\* claude_code_manager.py:186-190: what the except clauses of stop let through.
StopExcept(e) ==
    IF e.type = "ProcessLookupError" THEN NoExc
    ELSE IF IsException(e) THEN NoExc
    ELSE e

\* A cleanup that drops the handle and leaves the running flag set.
StopFinallyKeepsFlag ==
    /\ m_process' = None
    /\ UNCHANGED m_is_running

\* Variant of StopFinally: the handle is not cleared.
StopFinallyKeepsHandle ==
    /\ m_is_running' = FALSE
    /\ UNCHANGED m_process

\* claude_code_manager.py:192-194
StopFinally ==
    /\ m_is_running' = FALSE
    /\ m_process' = None

\* Variant of StopNoProcess: without the guard, None.returncode raises.
StopWithoutGuard(t, f) ==
    /\ UNCHANGED mgr
    /\ Return(t, f, "no process", Exc("AttributeError", NoCode, NoText))

\* claude_code_manager.py:157-159
StopNoProcess(t, f) ==
    /\ UNCHANGED mgr
    /\ Return(t, f, "no process", NoExc)

\* claude_code_manager.py:161-165
StopAlreadyTerminated(t, f) ==
    /\ m_is_running' = FALSE
    /\ m_process' = None
    /\ Return(t, f, "already exited", NoExc)

\* stop leaves its try block (lines 167-194): normally, or with exception e.
StopExit(t, f, path, e) ==
    /\ StopFinally
    /\ Return(t, f, path, StopExcept(e))

\* claude_code_manager.py:157-175: stop(timeout) up to its first await, in the
\* frame f of stopper t.
StopBegin(t, f) ==
    /\ IF m_process = None
       THEN StopNoProcess(t, f) /\ UNCHANGED sig
       ELSE IF returncode(m_process) # NoCode
       THEN StopAlreadyTerminated(t, f) /\ UNCHANGED sig
       ELSE \E o \in SignalOutcomes(m_process) :
              LET g == [f EXCEPT !.sent = <<<<m_process, SIGTERM>>>>] IN
              IF o = "ProcessLookupError"
              THEN /\ StopExit(t, g, "exception", Exc(o, NoCode, NoText))
                   /\ UNCHANGED sig
              ELSE /\ sig' = Deliver(m_process, SIGTERM, o)
                   /\ td' = [td EXCEPT ![t] =
                                [g EXCEPT !.pc = "termwait", !.wait = m_process]]
                   /\ UNCHANGED mgr
    /\ lastReturned' = (td'[t].pc = "done")
    /\ UNCHANGED <<spawned, status, reaped, written, readpos, run>>
    /\ UNCHANGED outside

\* A caller invokes stop(timeout).
StopCall(t) ==
    /\ td[t].pc \in {"idle", "done"}
    /\ StopBegin(t, [NoCall EXCEPT !.kind = "stop", !.inrow = lastReturned])

\* claude_code_manager.py:229-231: "async with manager" enters the scope;
\* __aenter__ returns self, so the body works on this manager.
AEnter(t) ==
    /\ td[t].pc = "idle"
    /\ td' = [td EXCEPT ![t] = [NoCall EXCEPT !.pc = "scope", !.kind = "scope"]]
    /\ lastReturned' = FALSE
    /\ UNCHANGED <<mgr, env, run>>
    /\ UNCHANGED outside

\* The body of the scope of stopper t is executing.
InScope(t) == td[t].pc = "scope"

\* claude_code_manager.py:233-235: the scope is left, the body having completed
\* or raised, and __aexit__ awaits self.stop() with the default timeout.  The
\* body iterated run_task itself, so it is not suspended inside a run: the run
\* has not begun, has ended, or was abandoned at a yield.
AExit(t) ==
    /\ InScope(t)
    /\ run[First].pc \in {"idle", "abandoned", "done", "closed"}
    /\ StopBegin(t, [NoCall EXCEPT !.kind = "aexit", !.inrow = lastReturned])

\* claude_code_manager.py:175-176, 192-194: the child exited within the timeout.
StopWaitDone(t) ==
    /\ td[t].pc = "termwait"
    /\ Exited(td[t].wait)
    /\ StopExit(t, td[t], "graceful", NoExc)
    /\ lastReturned' = TRUE
    /\ UNCHANGED <<env, run>>
    /\ UNCHANGED outside

\* Variant of StopTimeout: the kill is sent when the timed wait ends, whether
\* the child exited or not.
StopKillsAfterWait(t) ==
    /\ td[t].pc = "termwait"
    /\ m_process # None
    /\ \E o \in SignalOutcomes(m_process) :
          /\ sig' = Deliver(m_process, SIGKILL, o)
          /\ td' = [td EXCEPT ![t] =
                       [@ EXCEPT !.sent = Append(@, <<m_process, SIGKILL>>),
                                 !.pc = "killwait", !.wait = m_process]]
    /\ lastReturned' = FALSE
    /\ UNCHANGED <<mgr, spawned, status, reaped, written, readpos, run>>
    /\ UNCHANGED outside

\* claude_code_manager.py:177-183: the timeout expired; self._process.kill() and
\* self._process.wait() are evaluated on the handle held NOW.
StopTimeout(t) ==
    /\ td[t].pc = "termwait"
    /\ ~Exited(td[t].wait)
    /\ IF m_process = None
       THEN /\ StopExit(t, td[t], "exception", Exc("AttributeError", NoCode, NoText))
            /\ UNCHANGED sig
       ELSE \E o \in SignalOutcomes(m_process) :
              LET g == [td[t] EXCEPT !.sent = Append(@, <<m_process, SIGKILL>>)] IN
              IF o = "ProcessLookupError"
              THEN /\ StopExit(t, g, "exception", Exc(o, NoCode, NoText))
                   /\ UNCHANGED sig
              ELSE /\ sig' = Deliver(m_process, SIGKILL, o)
                   /\ td' = [td EXCEPT ![t] =
                                [g EXCEPT !.pc = "killwait", !.wait = m_process]]
                   /\ UNCHANGED mgr
    /\ lastReturned' = (td'[t].pc = "done")
    /\ UNCHANGED <<spawned, status, reaped, written, readpos, run>>
    /\ UNCHANGED outside

\* Variant of StopKillWaitDone: the wait after the kill is bounded as well,
\* and stop returns when it expires.
StopKillWaitTimesOut(t) ==
    /\ td[t].pc = "killwait"
    /\ StopExit(t, td[t], "escalated", NoExc)
    /\ lastReturned' = TRUE
    /\ UNCHANGED <<env, run>>
    /\ UNCHANGED outside

\* claude_code_manager.py:183-184, 192-194: the killed child has been reaped.
StopKillWaitDone(t) ==
    /\ td[t].pc = "killwait"
    /\ Exited(td[t].wait)
    /\ StopExit(t, td[t], "escalated", NoExc)
    /\ lastReturned' = TRUE
    /\ UNCHANGED <<env, run>>
    /\ UNCHANGED outside

\* claude_code_manager.py:219-223: what the except clauses of kill let through.
KillExcept(e) ==
    IF e.type = "ProcessLookupError" THEN NoExc
    ELSE IF IsException(e) THEN NoExc
    ELSE e

\* Variant of KillFinally: the handle is not cleared.
KillFinallyKeepsHandle ==
    /\ m_is_running' = FALSE
    /\ UNCHANGED m_process

\* claude_code_manager.py:225-227
KillFinally ==
    /\ m_is_running' = FALSE
    /\ m_process' = None

\* claude_code_manager.py:203-205
KillNoProcess(t, f) ==
    /\ UNCHANGED mgr
    /\ Return(t, f, "no process", NoExc)

\* Variant of KillAlreadyTerminated: the call returns and leaves the manager
\* as it found it.
KillAlreadyTerminatedKeepsState(t, f) ==
    /\ UNCHANGED mgr
    /\ Return(t, f, "already exited", NoExc)

\* claude_code_manager.py:207-211
KillAlreadyTerminated(t, f) ==
    /\ m_is_running' = FALSE
    /\ m_process' = None
    /\ Return(t, f, "already exited", NoExc)

\* kill leaves its try block (lines 213-227): normally, or with exception e.
KillExit(t, f, path, e) ==
    /\ KillFinally
    /\ Return(t, f, path, KillExcept(e))

\* claude_code_manager.py:203-216: kill() up to its await.
KillCall(t) ==
    LET f == [NoCall EXCEPT !.kind = "kill", !.inrow = lastReturned] IN
    /\ td[t].pc \in {"idle", "done"}
    /\ IF m_process = None
       THEN KillNoProcess(t, f) /\ UNCHANGED sig
       ELSE IF returncode(m_process) # NoCode
       THEN KillAlreadyTerminated(t, f) /\ UNCHANGED sig
       ELSE \E o \in SignalOutcomes(m_process) :
              LET g == [f EXCEPT !.sent = <<<<m_process, SIGKILL>>>>] IN
              IF o = "ProcessLookupError"
              THEN /\ KillExit(t, g, "exception", Exc(o, NoCode, NoText))
                   /\ UNCHANGED sig
              ELSE /\ sig' = Deliver(m_process, SIGKILL, o)
                   /\ td' = [td EXCEPT ![t] =
                                [g EXCEPT !.pc = "reap", !.wait = m_process]]
                   /\ UNCHANGED mgr
    /\ lastReturned' = (td'[t].pc = "done")
    /\ UNCHANGED <<spawned, status, reaped, written, readpos, run>>
    /\ UNCHANGED outside

\* claude_code_manager.py:216-217, 225-227: the killed child has been reaped.
KillWaitDone(t) ==
    /\ td[t].pc = "reap"
    /\ Exited(td[t].wait)
    /\ KillExit(t, td[t], "killed", NoExc)
    /\ lastReturned' = TRUE
    /\ UNCHANGED <<env, run>>
    /\ UNCHANGED outside

\* -------------------------------------------------- tools.ask_claude_code
\* tools.py:79: "".join(output_lines)
RECURSIVE Join(_)
Join(ls) == IF ls = <<>> THEN <<>> ELSE Head(ls) \o Join(Tail(ls))

\* tools.py:84: f"Error executing Claude Code task: {str(e)}"
ErrorMsg(e) == <<"Error executing Claude Code task: ", e.type, e.code, e.text>>

\* Variant of AskExcept: only a failure to start is caught.
AskExceptStartOnly(e) ==
    IF e.type = "ProcessStartError" THEN NoExc ELSE e

\* tools.py:83: what "except Exception" lets through to the caller.
AskExcept(e) ==
    IF IsException(e) THEN NoExc ELSE e

\* tools.py:79-86: ask_claude_code ends, its run_task loop having ended cleanly
\* or raised: it returns the joined lines or the error message.  The field
\* out is output_lines; result stays NoText when an exception escapes.
AskReturn(r) ==
    /\ run[r].pc = "done"
    /\ run' = [run EXCEPT
                 ![r].pc = "returned",
                 ![r].escaped = AskExcept(run[r].raised),
                 ![r].result = IF run[r].raised = NoExc THEN Join(run[r].out)
                               ELSE IF AskExcept(run[r].raised) = NoExc
                               THEN ErrorMsg(run[r].raised)
                               ELSE NoText]
    /\ lastReturned' = FALSE
    /\ UNCHANGED <<mgr, env, td>>
    /\ UNCHANGED outside

\* ------------------------------------------------------------ environment
\* Child p writes a line to its standard output, n lines at most.
ProcWriteUpTo(p, n) ==
    /\ Alive(p)
    /\ written[p] < n
    /\ written' = [written EXCEPT ![p] = @ + 1]
    /\ UNCHANGED <<mgr, spawned, status, reaped, sig, readpos, run, td,
                   lastReturned>>
    /\ UNCHANGED outside

ProcWrite(p) == ProcWriteUpTo(p, MaxLines)

ProcExit(p) ==
    /\ Alive(p)
    /\ \E c \in ExitCodes(p) : status' = [status EXCEPT ![p] = c]
    /\ UNCHANGED <<mgr, spawned, reaped, sig, written, readpos, run, td, lastReturned>>
    /\ UNCHANGED outside

\* The event loop collects the exit status of child p.
ProcReap(p) ==
    /\ Gone(p)
    /\ ~reaped[p]
    /\ reaped' = [reaped EXCEPT ![p] = TRUE]
    /\ UNCHANGED <<mgr, spawned, status, sig, written, readpos, run, td, lastReturned>>
    /\ UNCHANGED outside

\* ------------------------------------------- opus_computer._run_process
\* Callers of _run_process (find_computer_use_demo_container,
\* run_opus_task_in_container), one call each; the calls may overlap.
RpCallers == {"c1", "c2"}

\* Frame of a _run_process call.  proc: the local proc; killed: proc.kill() was
\* called; code: the first element of the returned tuple; raised: what the
\* call raised to its caller.
NoRp == [pc |-> "idle", proc |-> None, killed |-> FALSE, code |-> NoCode,
         raised |-> NoExc]

\* opus_computer.py:46: proc.returncode or 0
ReturnCodeOrZero(p) == IF returncode(p) = NoCode THEN 0 ELSE returncode(p)

\* _run_process is called: it runs up to the await of create_subprocess_exec.
RpCall(c) ==
    /\ rp[c].pc = "idle"
    /\ rp' = [rp EXCEPT ![c].pc = "spawn"]
    /\ UNCHANGED <<claude, web, spawned, status, reaped, sig>>

\* opus_computer.py:25-38: the child is created and communicate() is awaited
\* under wait_for.
RpSpawnOk(c) ==
    /\ rp[c].pc = "spawn"
    /\ spawned' = spawned + 1
    /\ rp' = [rp EXCEPT ![c].pc = "communicate", ![c].proc = spawned + 1]
    /\ UNCHANGED <<claude, web, status, reaped, sig>>

\* opus_computer.py:25: create_subprocess_exec raises, outside the try.
RpSpawnFail(c) ==
    /\ rp[c].pc = "spawn"
    /\ \E t \in SpawnErrors :
          rp' = [rp EXCEPT ![c].pc = "done", ![c].raised = Exc(t, NoCode, NoText)]
    /\ UNCHANGED <<claude, web, spawned, status, reaped, sig>>

\* opus_computer.py:33-46: communicate() returns, the child having exited and
\* been reaped within the timeout; the tuple is returned.
RpCommunicateDone(c) ==
    /\ rp[c].pc = "communicate"
    /\ Exited(rp[c].proc)
    /\ rp' = [rp EXCEPT ![c].pc = "done", ![c].code = ReturnCodeOrZero(rp[c].proc)]
    /\ UNCHANGED <<claude, web, spawned, status, reaped, sig>>

\* Variant of RpTimeout: the timeout error is passed on at once.
RpTimeoutOnlyRaises(c) ==
    /\ rp[c].pc = "communicate"
    /\ ~Exited(rp[c].proc)
    /\ rp' = [rp EXCEPT ![c].pc = "done",
                        ![c].raised = Exc("TimeoutError", NoCode, NoText)]
    /\ UNCHANGED <<claude, web, spawned, status, reaped, sig>>

\* opus_computer.py:39-41: the timeout expired; proc.kill(), then proc.wait()
\* is awaited.  kill() on a child that is already gone may raise
\* ProcessLookupError, which leaves _run_process in place of the timeout.
RpTimeout(c) ==
    /\ rp[c].pc = "communicate"
    /\ ~Exited(rp[c].proc)
    /\ \E o \in SignalOutcomes(rp[c].proc) :
          IF o = "ProcessLookupError"
          THEN /\ rp' = [rp EXCEPT ![c].pc = "done", ![c].killed = TRUE,
                                   ![c].raised = Exc(o, NoCode, NoText)]
               /\ UNCHANGED sig
          ELSE /\ sig' = Deliver(rp[c].proc, SIGKILL, o)
               /\ rp' = [rp EXCEPT ![c].pc = "reap", ![c].killed = TRUE]
    /\ UNCHANGED <<claude, web, spawned, status, reaped>>

\* opus_computer.py:41-42: the killed child has been reaped; the timeout error
\* is re-raised.
RpReaped(c) ==
    /\ rp[c].pc = "reap"
    /\ Exited(rp[c].proc)
    /\ rp' = [rp EXCEPT ![c].pc = "done",
                        ![c].raised = Exc("TimeoutError", NoCode, NoText)]
    /\ UNCHANGED <<claude, web, spawned, status, reaped, sig>>

\* ------------------------------------------------- websocket_handler.py
Connections == {"w1", "w2"}      \* WebSocket objects, one handler each

\* websocket_handler.py:12-21: MessageType.  A text frame is a valid message of
\* one of these types, or not a valid message.
MessageTypes == {"voice_start", "voice_stop", "task_request", "task_response",
                 "output_stream", "error", "connection_ack"}
Frames == MessageTypes \cup {"invalid"}

\* Frame of a websocket_endpoint handler.  accepted: accept() returned; got: the
\* last frame received; sending: type of the message whose send is awaited;
\* replied: type of the last reply whose send was made; nrecv, nreply: frames
\* received, replies sent; cause: why the handler ended.
NoEp == [pc |-> "new", accepted |-> FALSE, got |-> "none", sending |-> "none",
         replied |-> "none", nrecv |-> 0, nreply |-> 0, cause |-> "none"]

\* Frame of a broadcast call.  size and start: the set when the iteration
\* began; visited: connections the iterator has produced; cur: the
\* connection whose send is awaited; delivered: sends that returned; failed:
\* the local set disconnected.
NoBc == [pc |-> "idle", size |-> 0, start |-> {}, visited |-> {}, cur |-> "none",
         delivered |-> {}, failed |-> {}, raised |-> NoExc]

\* websocket.send_text on connection w: it raises once the client's end is
\* closed.
SendOutcomes(w) == IF client[w] = "open" THEN {"ok"} ELSE {"error"}

\* websocket_handler.py:50-53: disconnect, as a set.
Discard(set, w) == set \ {w}

\* websocket_handler.py:58-62: send_message after its send_text ended with
\* outcome o: a failed send removes the connection.
AfterSend(w, o) == IF o = "ok" THEN active ELSE Discard(active, w)

\* websocket_handler.py:97, 37-48: the handler of connection w starts;
\* accept() returns, the connection is added and the acknowledgment is being
\* sent; or accept() raises (connect is outside the try of line 99).
EpConnect(w) ==
    /\ ep[w].pc = "new"
    /\ IF client[w] = "open"
       THEN /\ active' = active \cup {w}
            /\ ep' = [ep EXCEPT ![w].pc = "ack", ![w].accepted = TRUE,
                                ![w].sending = "connection_ack"]
       ELSE /\ ep' = [ep EXCEPT ![w].pc = "ended", ![w].cause = "accept failed"]
            /\ UNCHANGED active
    /\ UNCHANGED <<claude, env, rp, bc, client>>

\* websocket_handler.py:44-48, 58-62, 100-102: the send of the acknowledgment
\* ended; the handler enters its loop and awaits receive_text.
EpAckDone(w) ==
    /\ ep[w].pc = "ack"
    /\ \E o \in SendOutcomes(w) : active' = AfterSend(w, o)
    /\ ep' = [ep EXCEPT ![w].pc = "recv", ![w].sending = "none"]
    /\ UNCHANGED <<claude, env, rp, bc, client>>

\* websocket_handler.py:105: WebSocketMessage.model_validate_json(data).
Parses(k) == k \in MessageTypes

\* websocket_handler.py:142-157: handle_message, and the handlers of lines
\* 160-215: the type of the message sent for a valid message of type k.
HandleMessage(k) ==
    IF k = "voice_start" THEN "voice_start"
    ELSE IF k = "voice_stop" THEN "voice_stop"
    ELSE IF k = "task_request" THEN "task_response"
    ELSE "error"

\* Variant of InnerCatches: only the JSON error is caught by the inner try.
InnerCatchesJsonOnly(e) == e = "JSONDecodeError"

\* websocket_handler.py:111-124: the exceptions the inner try catches.
InnerCatches(e) == e \in {"ValidationError", "JSONDecodeError"}

\* websocket_handler.py:102-124: a text frame k arrives; it is validated and
\* the reply is being sent, or the validation error passes the inner try and
\* ends the handler (lines 129-131).
EpReceive(w, k) ==
    /\ ep[w].pc = "recv"
    /\ client[w] = "open"
    /\ ep[w].nrecv < MaxFrames
    /\ IF Parses(k) \/ InnerCatches("ValidationError")
       THEN /\ ep' = [ep EXCEPT ![w].pc = "reply", ![w].got = k,
                                ![w].nrecv = @ + 1,
                                ![w].sending = IF Parses(k) THEN HandleMessage(k)
                                               ELSE "error"]
            /\ UNCHANGED active
       ELSE /\ ep' = [ep EXCEPT ![w].pc = "ended", ![w].got = k,
                                ![w].nrecv = @ + 1, ![w].cause = "ValidationError"]
            /\ active' = Discard(active, w)
    /\ UNCHANGED <<claude, env, rp, bc, client>>

\* websocket_handler.py:58-62, 100-102: the send of the reply ended; the
\* handler awaits the next frame.
EpReplyDone(w) ==
    /\ ep[w].pc = "reply"
    /\ \E o \in SendOutcomes(w) : active' = AfterSend(w, o)
    /\ ep' = [ep EXCEPT ![w].pc = "recv", ![w].replied = ep[w].sending,
                        ![w].nreply = @ + 1, ![w].sending = "none"]
    /\ UNCHANGED <<claude, env, rp, bc, client>>

\* websocket_handler.py:102, 126-128: receive_text raises WebSocketDisconnect;
\* the connection is removed and the handler returns.
EpDisconnected(w) ==
    /\ ep[w].pc = "recv"
    /\ client[w] = "closed"
    /\ active' = Discard(active, w)
    /\ ep' = [ep EXCEPT ![w].pc = "ended", ![w].cause = "WebSocketDisconnect"]
    /\ UNCHANGED <<claude, env, rp, bc, client>>

\* The client of connection w closes its end.
ClientClose(w) ==
    /\ client[w] = "open"
    /\ client' = [client EXCEPT ![w] = "closed"]
    /\ UNCHANGED <<claude, env, rp, active, ep, bc>>

\* What the set iterator of line 70 can produce for frame f when the set is
\* as large as when the iteration began: the connections not yet produced,
\* then the end ("stop").  If the set was changed meanwhile (one connection
\* removed, another added) the order of the iteration is unspecified: any
\* connection not yet produced, or the end.
IterChoices(f) ==
    LET rest == active \ f.visited IN
    IF active = f.start
    THEN IF rest = {} THEN {"stop"} ELSE rest
    ELSE rest \cup {"stop"}

\* websocket_handler.py:70-79: the for statement asks the set iterator for the
\* next connection, broadcast being in frame f.  The iterator raises
\* RuntimeError (set changed size during iteration) when the set is not as
\* large as when the loop began; that leaves broadcast, line 70 being outside
\* the try.  At the end of the loop the failed connections are removed.
BcIterate(f) ==
    IF Cardinality(active) # f.size
    THEN /\ bc' = [f EXCEPT !.pc = "done", !.cur = "none",
                            !.raised = Exc("RuntimeError", NoCode, NoText)]
         /\ UNCHANGED active
    ELSE \E x \in IterChoices(f) :
           IF x = "stop"
           THEN /\ active' = active \ f.failed
                /\ bc' = [f EXCEPT !.pc = "done", !.cur = "none"]
           ELSE /\ bc' = [f EXCEPT !.pc = "send", !.cur = x,
                                   !.visited = @ \cup {x}]
                /\ UNCHANGED active

\* websocket_handler.py:64-72: broadcast is called and runs up to its first
\* send (or to its end).
BcCall ==
    /\ bc.pc = "idle"
    /\ BcIterate([NoBc EXCEPT !.size = Cardinality(active), !.start = active])
    /\ UNCHANGED <<claude, env, rp, ep, client>>

\* websocket_handler.py:72-75: the send to the current connection ended; the
\* loop goes on.
BcSendDone ==
    /\ bc.pc = "send"
    /\ \E o \in SendOutcomes(bc.cur) :
          BcIterate(IF o = "ok"
                    THEN [bc EXCEPT !.delivered = @ \cup {bc.cur}]
                    ELSE [bc EXCEPT !.failed = @ \cup {bc.cur}])
    /\ UNCHANGED <<claude, env, rp, ep, client>>

\* ------------------------------------------------------------------ system
Init ==
    /\ m_process = None
    /\ m_is_running = FALSE
    /\ spawned = 0
    /\ status = [p \in Procs |-> NoCode]
    /\ reaped = [p \in Procs |-> FALSE]
    /\ sig = [p \in Procs |-> {}]
    /\ written = [p \in Procs |-> 0]
    /\ readpos = [p \in Procs |-> 0]
    /\ run = [r \in Runners |-> NoRun]
    /\ td = [t \in Stoppers |-> NoCall]
    /\ lastReturned = FALSE
    /\ rp = [c \in RpCallers |-> NoRp]
    /\ active = {}
    /\ ep = [w \in Connections |-> NoEp]
    /\ bc = NoBc
    /\ client = [w \in Connections |-> "open"]

Next ==
    \/ \E r \in Runners : RunCall(r)
    \/ \E r \in Runners : RunSpawnOk(r)
    \/ \E r \in Runners : RunSpawnFail(r)
    \/ \E r \in Runners : RunYield(r)
    \/ \E r \in Runners : RunNext(r)
    \/ \E r \in Runners : RunAbandon(r)
    \/ \E r \in Runners : RunClose(r)
    \/ \E r \in Runners : RunStreamError(r)
    \/ \E r \in Runners : RunEndOfStream(r)
    \/ \E r \in Runners : RunWaitDone(r)
    \/ \E r \in Runners : RunStderrDone(r)
    \/ StopCall(Sole)
    \/ StopWaitDone(Sole)
    \/ StopTimeout(Sole)
    \/ StopKillWaitDone(Sole)
    \/ KillCall(Sole)
    \/ KillWaitDone(Sole)
    \/ \E p \in Procs : ProcWrite(p)
    \/ \E p \in Procs : ProcExit(p)
    \/ \E p \in Procs : ProcReap(p)

Spec == Init /\ [][Next]_vars

\* The manager used by one run_task call only (and any stop and kill calls).
NextSingleRun ==
    \/ RunCall(First)
    \/ RunSpawnOk(First)
    \/ RunSpawnFail(First)
    \/ RunYield(First)
    \/ RunNext(First)
    \/ RunAbandon(First)
    \/ RunClose(First)
    \/ RunStreamError(First)
    \/ RunEndOfStream(First)
    \/ RunWaitDone(First)
    \/ RunStderrDone(First)
    \/ \E t \in Stoppers : StopCall(t)
    \/ \E t \in Stoppers : StopWaitDone(t)
    \/ \E t \in Stoppers : StopTimeout(t)
    \/ \E t \in Stoppers : StopKillWaitDone(t)
    \/ \E t \in Stoppers : KillCall(t)
    \/ \E t \in Stoppers : KillWaitDone(t)
    \/ \E p \in Procs : ProcWriteUpTo(p, MaxStreamLines)
    \/ \E p \in Procs : ProcExit(p)
    \/ \E p \in Procs : ProcReap(p)

SpecSingleRun == Init /\ [][NextSingleRun]_vars

\* A child that received SIGKILL dies.
ProcKilled(p) == SIGKILL \in sig[p] /\ ProcExit(p)

\* One run_task call whose caller keeps iterating or abandons the generator,
\* which asyncio then finalizes (when it is collected, or at the latest when
\* the loop shuts its async generators down).  The event loop resumes a
\* coroutine whose await can complete (a line or the end of the output is
\* there, the awaited child is reaped, the timeout of wait_for has expired);
\* a killed child dies and its exit status is collected.
FairSingleRun ==
    /\ SpecSingleRun
    /\ WF_vars(RunSpawnOk(First) \/ RunSpawnFail(First))
    /\ WF_vars(RunYield(First) \/ RunStreamError(First))
    /\ WF_vars(RunNext(First) \/ RunAbandon(First))
    /\ WF_vars(RunClose(First))
    /\ WF_vars(RunEndOfStream(First))
    /\ WF_vars(RunWaitDone(First))
    /\ WF_vars(RunStderrDone(First))
    /\ \A t \in Stoppers :
          /\ WF_vars(StopWaitDone(t))
          /\ WF_vars(StopTimeout(t))
          /\ WF_vars(StopKillWaitDone(t))
          /\ WF_vars(KillWaitDone(t))
    /\ \A p \in Procs :
          /\ WF_vars(ProcKilled(p))
          /\ WF_vars(ProcReap(p))

\* Concurrent ask_claude_code calls on the shared manager of tools.py:27-40:
\* each iterates run_task to its end; nothing in the application calls stop or
\* kill.
NextAsk ==
    \/ \E r \in Runners : RunCall(r)
    \/ \E r \in Runners : RunSpawnOk(r)
    \/ \E r \in Runners : RunSpawnFail(r)
    \/ \E r \in Runners : RunYield(r)
    \/ \E r \in Runners : RunNext(r)
    \/ \E r \in Runners : RunStreamError(r)
    \/ \E r \in Runners : RunEndOfStream(r)
    \/ \E r \in Runners : RunWaitDone(r)
    \/ \E r \in Runners : RunStderrDone(r)
    \/ \E r \in Runners : AskReturn(r)
    \/ \E p \in Procs : ProcWriteUpTo(p, MaxStreamLines)
    \/ \E p \in Procs : ProcExit(p)
    \/ \E p \in Procs : ProcReap(p)

SpecAsk == Init /\ [][NextAsk]_vars

\* Calls of opus_computer._run_process and their children.
NextRunProcess ==
    \/ \E c \in RpCallers : RpCall(c)
    \/ \E c \in RpCallers : RpSpawnOk(c)
    \/ \E c \in RpCallers : RpSpawnFail(c)
    \/ \E c \in RpCallers : RpCommunicateDone(c)
    \/ \E c \in RpCallers : RpTimeout(c)
    \/ \E c \in RpCallers : RpReaped(c)
    \/ \E p \in Procs : ProcExit(p)
    \/ \E p \in Procs : ProcReap(p)

SpecRunProcess == Init /\ [][NextRunProcess]_vars

\* The WebSocket endpoint: one handler per connection, the clients, and a
\* broadcast.
NextWeb ==
    \/ \E w \in Connections : EpConnect(w)
    \/ \E w \in Connections : EpAckDone(w)
    \/ \E w \in Connections : \E k \in Frames : EpReceive(w, k)
    \/ \E w \in Connections : EpReplyDone(w)
    \/ \E w \in Connections : EpDisconnected(w)
    \/ \E w \in Connections : ClientClose(w)
    \/ BcCall
    \/ BcSendDone

SpecWeb == Init /\ [][NextWeb]_vars

\* The body of the scope of stopper t calls run_task, and asks for next lines.
BodyRunCall(t) == InScope(t) /\ RunCall(First)
BodyRunNext(t) == InScope(t) /\ RunNext(First)

\* The manager used as a scoped resource ("async with"): the body makes one
\* run_task call and iterates it; a generator the body abandoned is closed
\* before or after the scope is left.
NextScoped ==
    \/ AEnter(Sole)
    \/ BodyRunCall(Sole)
    \/ RunSpawnOk(First)
    \/ RunSpawnFail(First)
    \/ RunYield(First)
    \/ BodyRunNext(Sole)
    \/ RunAbandon(First)
    \/ RunClose(First)
    \/ RunStreamError(First)
    \/ RunEndOfStream(First)
    \/ RunWaitDone(First)
    \/ RunStderrDone(First)
    \/ AExit(Sole)
    \/ StopWaitDone(Sole)
    \/ StopTimeout(Sole)
    \/ StopKillWaitDone(Sole)
    \/ \E p \in Procs : ProcWriteUpTo(p, MaxStreamLines)
    \/ \E p \in Procs : ProcExit(p)
    \/ \E p \in Procs : ProcReap(p)

SpecScoped == Init /\ [][NextScoped]_vars

\* ------------------------------------------------------------- properties
Cleared == [process |-> None, is_running |-> FALSE]

\* C1: when a run_task call has completed (clean end, ProcessStartError,
\* ProcessCommunicationError, or closed by its caller), the is_running query
\* is false and the handle is None at that moment.
C1_RunLeavesManagerCleared ==
    \A r \in Runners : run[r].pc \in {"done", "closed"} => run[r].seen = Cleared

C1_Witness ==
    \E r \in Runners :
        /\ run[r].pc = "done"
        /\ run[r].proc # None
        /\ run[r].raised.type = "ProcessCommunicationError"

\* C2: when the timeout of stop expires while the child it sent SIGTERM to is
\* alive, stop sends SIGKILL to that child and awaits it; and when stop returns
\* after the escalation, that child is gone and the manager is cleared.
C2_StopEscalatesToKill ==
    [][\A t \in Stoppers :
        /\ (td[t].pc = "termwait" /\ Alive(td[t].wait) /\ td'[t] # td[t])
              => /\ td'[t].pc = "killwait"
                 /\ td'[t].wait = td[t].wait
                 /\ SIGKILL \in sig'[td[t].wait]
        /\ (td[t].pc = "killwait" /\ td'[t].pc = "done")
              => /\ Gone(td[t].sent[1][1])
                 /\ td'[t].seen = Cleared]_vars

\* C3: no call of stop or kill raises anything to its caller.
C3_TeardownNeverRaises ==
    \A t \in Stoppers : td[t].raised = NoExc

C3_Witness ==
    \E t \in Stoppers : td[t].pc = "done" /\ td[t].path = "exception"

\* C4: when stop or kill returns, by whichever path, the manager is not running
\* and holds no handle.
C4_TeardownLeavesManagerCleared ==
    \A t \in Stoppers : td[t].pc = "done" => td[t].seen = Cleared

C4_Witness ==
    \E t \in Stoppers : td[t].pc = "done" /\ td[t].path = "escalated"

\* C5: on a manager that never started a process, a call of stop or kill
\* returns at once, raises nothing, sends no signal and leaves the running flag
\* and the handle as they were.
C5_NoProcessIsNoOp ==
    [][\A t \in Stoppers :
        (spawned = 0 /\ td'[t] # td[t])
           => /\ td'[t].pc = "done"
              /\ td'[t].raised = NoExc
              /\ td'[t].sent = <<>>
              /\ UNCHANGED <<m_process, m_is_running, sig>>]_vars

C5_Witness ==
    \E t \in Stoppers : td[t].pc = "done" /\ spawned = 0

\* C6: a call of stop or kill made right after a call of stop or kill has
\* returned raises nothing, sends no signal and leaves the manager as the first
\* call left it: not running, no handle.
C6_SecondCallIsNoOp ==
    [][\A t \in Stoppers :
        (lastReturned /\ td[t].pc \in {"idle", "done"} /\ td'[t] # td[t])
           => /\ td'[t].pc = "done"
              /\ td'[t].raised = NoExc
              /\ td'[t].sent = <<>>
              /\ m_process = None /\ ~m_is_running
              /\ UNCHANGED <<m_process, m_is_running, sig>>]_vars

C6_Witness ==
    \E t \in Stoppers :
        /\ td[t].pc = "done"
        /\ td[t].inrow
        /\ \E p \in Procs : Exited(p)

\* The generator of runner r read its child's standard output to the end.
StreamedToEnd(r) ==
    run[r].cause \in {"none", "AttributeError", "ProcessCommunicationError"}

\* C7: when the child of a run_task call exits with a non-zero code after its
\* output has been streamed, the call fails with ProcessCommunicationError
\* carrying that exit code and the child's standard-error text.
C7_NonZeroExitIsReported ==
    \A r \in Runners :
        (run[r].pc = "done" /\ StreamedToEnd(r) /\ status[run[r].proc] # 0)
           => run[r].raised = Exc("ProcessCommunicationError", status[run[r].proc],
                                  ErrText(run[r].proc))

\* C8: when the binary is not found, run_task fails with ProcessStartError
\* before yielding a line, and leaves the manager not running with no handle.
C8_BinaryNotFound ==
    \A r \in Runners :
        run[r].cause = "FileNotFoundError"
           => /\ run[r].pc = "done"
              /\ run[r].raised.type = "ProcessStartError"
              /\ run[r].out = <<>>
              /\ run[r].seen = Cleared

C8_Witness ==
    \E r \in Runners : run[r].pc = "done" /\ run[r].cause = "FileNotFoundError"

\* C9: every failure to launch the binary (not found, permission denied) makes
\* run_task fail with ProcessStartError.
C9_LaunchFailureIsStartError ==
    \A r \in Runners :
        run[r].cause \in SpawnErrors => run[r].raised.type = "ProcessStartError"

\* C10: what run_task raises to its caller is ProcessStartError or
\* ProcessCommunicationError, and every exception of the try block other than
\* binary-not-found is raised as ProcessCommunicationError.
C10_OnlyManagerErrors ==
    \A r \in Runners :
        run[r].pc = "done"
           => /\ run[r].raised.type \in
                    {"none", "ProcessStartError", "ProcessCommunicationError"}
              /\ run[r].cause \notin {"none", "FileNotFoundError"}
                    => run[r].raised.type = "ProcessCommunicationError"

C10_Witness ==
    \E r \in Runners :
        /\ run[r].pc = "done"
        /\ run[r].cause = "ValueError"
        /\ run[r].raised.type = "ProcessCommunicationError"
\* The first n lines a child writes, decoded, in the order it writes them.
Lines(n) == [i \in 1..n |-> Decode(i)]

\* C11: the lines a run_task call has yielded are the lines its child wrote to
\* standard output, decoded, in the child's order with none dropped, repeated
\* or reordered; a run that ended without an error has yielded every line the
\* child wrote.
C11_YieldsOutputInOrder ==
    \A r \in Runners :
        run[r].proc # None =>
            /\ Len(run[r].out) <= written[run[r].proc]
            /\ run[r].out = Lines(Len(run[r].out))
            /\ (run[r].pc = "done" /\ run[r].raised = NoExc) =>
                   run[r].out = Lines(written[run[r].proc])

C11_Witness ==
    \E r \in Runners :
        /\ run[r].pc = "done"
        /\ run[r].raised = NoExc
        /\ Len(run[r].out) >= 2
        /\ run[r].out = Lines(written[run[r].proc])

\* C12: when the child of a run_task call has exited with code 0 after its
\* output was streamed to the end, the call ends normally without an error;
\* and a completed call has either ended cleanly or raised an error.
C12_ZeroExitEndsNormally ==
    \A r \in Runners :
        run[r].pc = "done" =>
            /\ run[r].raised = NoExc \/ IsException(run[r].raised)
            /\ (StreamedToEnd(r) /\ status[run[r].proc] = 0) => run[r].raised = NoExc

\* C13: in every reachable state, whatever run_task, stop and kill calls have
\* run and however they interleave, the running flag is set only while a
\* process handle is held.
C13_RunningImpliesHandle ==
    m_is_running => m_process # None

C13_Witness ==
    /\ m_is_running
    /\ m_process # None
    /\ \E t \in Stoppers : td[t].pc = "termwait"
    /\ \E r \in Runners : run[r].pc = "spawn"

\* C14: when the manager is used as a scoped resource and the scope has been
\* left (the body completed, or raised partway through a run), __aexit__ has
\* run stop: no child of the manager is alive and the manager is not running.
C14_ScopeExitLeavesNoChild ==
    \A t \in Stoppers :
        (td[t].kind = "aexit" /\ td[t].pc = "done") =>
            /\ td[t].seen = Cleared
            /\ \A p \in Procs : ~Alive(p)

\* C15: in every reachable state at most one child spawned through the
\* manager is alive, whatever run_task, stop and kill calls were made,
\* overlapping run_task calls included.
C15_AtMostOneChildAlive ==
    Cardinality({p \in Procs : Alive(p)}) <= 1

\* C16: one run_task call with stop and kill calls running concurrently: once
\* the run has completed and no stop or kill call is still in progress, the
\* manager is not running and holds no handle, whatever the interleaving was.
C16_CleanupsAgree ==
    (/\ run[First].pc \in {"done", "closed"}
     /\ \A t \in Stoppers : td[t].pc \in {"idle", "done"})
        => (m_process = None /\ ~m_is_running)

\* stop and kill were both suspended while the run was in progress.
C16_Witness ==
    /\ run[First].pc \in {"done", "closed"}
    /\ \E t, u \in Stoppers :
          /\ td[t].pc = "done" /\ td[t].path = "escalated"
          /\ td[u].pc = "done" /\ td[u].path = "killed"
    /\ m_process = None /\ ~m_is_running

\* Stopper t is inside a stop or kill call that signalled the child of the
\* run in progress.
Cancelling(t) ==
    /\ td[t].pc \in {"termwait", "killwait", "reap"}
    /\ td[t].wait = run[First].proc
    /\ run[First].pc \in {"stream", "yield", "abandoned", "wait", "stderr"}

\* C17: when stop or kill is invoked while a run_task call is in progress and
\* the caller keeps iterating, the run eventually terminates (signals being
\* delivered, and a killed child dying and being reaped).
C17_StopOrKillEndsRun ==
    \A t \in Stoppers :
        [](Cancelling(t) => <>(run[First].pc \in {"done", "closed"}))

\* A run that ended after stop escalated to SIGKILL on its child.
C17_Witness ==
    /\ run[First].pc = "done"
    /\ run[First].out # <<>>
    /\ SIGKILL \in sig[run[First].proc]
    /\ \E t \in Stoppers : td[t].pc = "done" /\ td[t].path = "escalated"

\* C18: when the caller of run_task stops consuming before the sequence is
\* exhausted, the cleanup is still performed: the generator is closed and
\* leaves the manager not running with no handle.
C18_AbandonedRunIsCleanedUp ==
    [](run[First].pc = "abandoned" =>
          <>(run[First].pc = "closed" /\ run[First].seen = Cleared))

\* An abandoned run was closed after it had yielded a line, its child alive.
C18_Witness ==
    /\ run[First].pc = "closed"
    /\ run[First].out # <<>>
    /\ run[First].seen = Cleared
    /\ Alive(run[First].proc)
    /\ \A t \in Stoppers : td[t].pc = "idle"

\* C19: the timeout of stop bounds the graceful phase only.  While stop waits
\* after SIGTERM it can always go on: it returns if the child has exited, and
\* the timeout expires if not.  While stop waits after the kill it returns if
\* the child has been reaped, and otherwise it has no step at all: it stays
\* blocked for as long as the child is not reaped.
C19_OnlyGracefulPhaseIsBounded ==
    \A t \in Stoppers :
        /\ (td[t].pc = "termwait" /\ Exited(td[t].wait))
              => ENABLED (StopWaitDone(t) /\ td'[t].pc = "done")
        /\ (td[t].pc = "termwait" /\ ~Exited(td[t].wait))
              => ENABLED (StopTimeout(t) /\ td'[t].pc # "termwait")
        /\ (td[t].pc = "killwait" /\ Exited(td[t].wait))
              => ENABLED (StopKillWaitDone(t) /\ td'[t].pc = "done")
        /\ (td[t].pc = "killwait" /\ ~Exited(td[t].wait))
              => ~ENABLED (NextSingleRun /\ td'[t] # td[t])

\* stop has sent the kill signal and is blocked: the child is dead but its
\* exit status has not been collected.
C19_Witness ==
    \E t \in Stoppers :
        /\ td[t].pc = "killwait"
        /\ td[t].sent = <<<<td[t].wait, SIGTERM>>, <<td[t].wait, SIGKILL>>>>
        /\ Gone(td[t].wait)
        /\ ~Exited(td[t].wait)

\* C20: while the manager tracks a handle whose process has exited (its
\* returncode is set), a call of stop or of kill is possible and completes at
\* once, without waiting: it sends no signal and leaves the manager not
\* running with no handle.
C20_ExitedProcessIsOnlyForgotten ==
    (m_process # None /\ returncode(m_process) # NoCode) =>
        \A t \in Stoppers :
            td[t].pc \in {"idle", "done"} =>
                /\ ENABLED StopCall(t)
                /\ ENABLED KillCall(t)
                /\ ~ENABLED (/\ StopCall(t) \/ KillCall(t)
                             /\ ~(/\ td'[t].pc = "done"
                                  /\ td'[t].sent = <<>>
                                  /\ sig' = sig
                                  /\ m_process' = None
                                  /\ ~m_is_running'))

\* kill was called on a handle whose process had exited while its run was
\* still in progress.
C20_Witness ==
    \E t \in Stoppers :
        /\ td[t].pc = "done"
        /\ td[t].kind = "kill"
        /\ td[t].path = "already exited"
        /\ td[t].sent = <<>>
        /\ td[t].seen = Cleared
        /\ run[First].pc \in {"stream", "yield"}

\* The signals a call has sent, without the processes they went to.
Signals(f) == [i \in 1..Len(f.sent) |-> f.sent[i][2]]

\* C21: within one stop call SIGKILL is sent only after SIGTERM was sent and
\* the timed wait expired without the awaited process having exited: SIGKILL
\* is never the first signal, and it is not sent when the process exited
\* within the timeout.
C21_KillOnlyAfterTermAndTimeout ==
    \A t \in Stoppers :
        td[t].kind \in {"stop", "aexit"} =>
            /\ Signals(td[t]) \in {<<>>, <<SIGTERM>>, <<SIGTERM, SIGKILL>>}
            /\ td[t].pc = "termwait" => Signals(td[t]) = <<SIGTERM>>
            /\ td[t].pc = "killwait" => Signals(td[t]) = <<SIGTERM, SIGKILL>>
            /\ td[t].path = "graceful" => Signals(td[t]) = <<SIGTERM>>
            /\ (td[t].pc = "termwait" /\ Exited(td[t].wait))
                  => ~ENABLED (NextSingleRun /\ Len(td'[t].sent) > Len(td[t].sent))

\* A stop call that sent SIGTERM, timed out, sent SIGKILL and returned.
C21_Witness ==
    \E t \in Stoppers :
        /\ td[t].kind = "stop"
        /\ td[t].pc = "done"
        /\ Signals(td[t]) = <<SIGTERM, SIGKILL>>
        /\ td[t].sent[1][1] = td[t].sent[2][1]
        /\ SIGKILL \in sig[td[t].sent[2][1]]

\* C22: one run_task call with stop and kill calls interleaved: a run whose
\* output was streamed to the end ends as its own child's exit status says
\* (cleanly for code 0, with ProcessCommunicationError naming the code
\* otherwise), and never fails on a handle that stop or kill has cleared.
C22_OutcomeIsOwnChildsStatus ==
    LET r == First IN
    (run[r].pc = "done" /\ StreamedToEnd(r)) =>
        /\ run[r].cause # "AttributeError"
        /\ IF status[run[r].proc] = 0
           THEN run[r].raised = NoExc
           ELSE /\ run[r].raised.type = "ProcessCommunicationError"
                /\ run[r].raised.code = status[run[r].proc]

\* C23: a stop or kill call signals, and waits for, only the process that was
\* tracked when the call began (the one its first signal went to); a process
\* spawned while the call is suspended is never signalled by it.
C23_OnlyTrackedProcessIsSignalled ==
    \A t \in Stoppers :
        td[t].sent # <<>> =>
            /\ \A i \in 1..Len(td[t].sent) : td[t].sent[i][1] = td[t].sent[1][1]
            /\ td[t].wait \in {None, td[t].sent[1][1]}

\* C24: no child is leaked: in every reachable state in which is_running is
\* false, no child spawned through the manager is alive.
C24_NoChildLeaked ==
    ~is_running => \A p \in Procs : ~Alive(p)

\* C25: ask_claude_code never raises to its caller: when its run_task ended
\* cleanly it returns the concatenation, in order, of the lines run_task
\* yielded (all the child wrote), and when run_task raised ProcessStartError
\* or ProcessCommunicationError it returns the error message.
C25_AskReturnsOutputOrMessage ==
    \A r \in Runners :
        /\ run[r].escaped = NoExc
        /\ run[r].pc = "returned" =>
              IF run[r].raised = NoExc
              THEN /\ run[r].result = Join(run[r].out)
                   /\ run[r].result = Join(Lines(written[run[r].proc]))
              ELSE /\ run[r].raised.type \in {"ProcessStartError", "ProcessCommunicationError"}
                   /\ run[r].result = ErrorMsg(run[r].raised)

\* One call returned two lines joined while the other returned the message of
\* a communication failure.
C25_Witness ==
    \E r, q \in Runners :
        /\ run[r].pc = "returned" /\ run[r].raised = NoExc
        /\ run[r].result = Decode(1) \o Decode(2)
        /\ run[q].pc = "returned"
        /\ run[q].raised.type = "ProcessCommunicationError"
        /\ run[q].result = ErrorMsg(run[q].raised)

\* C26: when the child of a _run_process call has not finished within the
\* timeout, kill() is called on it and it is reaped before the timeout error
\* reaches the caller; no child of a _run_process call is alive once the call
\* has returned or raised.
C26_TimedOutChildIsKilledAndReaped ==
    \A c \in RpCallers :
        rp[c].pc = "done" =>
            /\ rp[c].proc # None => ~Alive(rp[c].proc)
            /\ rp[c].raised.type = "TimeoutError" =>
                  (rp[c].killed /\ Exited(rp[c].proc))

\* A call timed out on a running child, killed it and raised the timeout.
C26_Witness ==
    \E c \in RpCallers :
        /\ rp[c].pc = "done"
        /\ rp[c].raised.type = "TimeoutError"
        /\ returncode(rp[c].proc) = -9

\* The handler of connection w has accepted it and has not returned.
Serving(w) == ep[w].accepted /\ ep[w].pc # "ended"

\* C27: in every reachable state active_connections holds exactly the
\* connections that were accepted and whose websocket_endpoint handler is
\* still running.
C27_ActiveIsAcceptedAndServed ==
    active = {w \in Connections : Serving(w)}

\* C28: when broadcast has ended, a send was attempted to every connection
\* that was in active_connections, whether or not an earlier send failed; and
\* when it returned, the connections whose send failed are no longer in
\* active_connections.
C28_BroadcastReachesAll ==
    bc.pc = "done" =>
        /\ bc.start \subseteq (bc.delivered \cup bc.failed)
        /\ bc.raised = NoExc => (active \cap bc.failed = {})

\* C29: broadcast never raises, whatever connect, disconnect and send_message
\* calls change active_connections while it is suspended at a send.
C29_BroadcastNeverRaises ==
    bc.raised = NoExc

\* The reply the endpoint owes for a text frame k.
ReplyFor(k) ==
    CASE k = "voice_start"  -> "voice_start"
      [] k = "voice_stop"   -> "voice_stop"
      [] k = "task_request" -> "task_response"
      [] OTHER              -> "error"

\* C30: for every text frame received the endpoint sends exactly one reply on
\* that connection, of the type the frame calls for (an error message for any
\* other valid type and for a frame that is not a valid message), and goes on
\* receiving; no frame ends the receive loop.
C30_OneReplyPerFrame ==
    \A w \in Connections :
        /\ ep[w].pc = "reply" =>
              /\ ep[w].nreply = ep[w].nrecv - 1
              /\ ep[w].sending = ReplyFor(ep[w].got)
        /\ ep[w].pc = "recv" =>
              /\ ep[w].nreply = ep[w].nrecv
              /\ ep[w].nrecv > 0 => ep[w].replied = ReplyFor(ep[w].got)
        /\ ep[w].pc = "ended" =>
              /\ ep[w].nreply = ep[w].nrecv
              /\ ep[w].cause \in {"accept failed", "WebSocketDisconnect"}

\* A frame that is not a valid message was answered with an error message and
\* the handler is receiving again; the other connection got a task_response.
C30_Witness ==
    \E w, v \in Connections :
        /\ ep[w].pc = "recv" /\ ep[w].got = "invalid"
        /\ ep[w].replied = "error" /\ ep[w].nreply = ep[w].nrecv
        /\ ep[v].pc = "recv" /\ ep[v].got = "task_request"
        /\ ep[v].replied = "task_response"

====
